---- MODULE Spec2Model ----
(***************************************************************************)
(* FiveTwelve: the model component (model.py, game_element.py) of a 2048   *)
(* variant.  A Board owns a list of lists of optional Tiles; tiles slide   *)
(* and merge, and tiles and board emit events.  Tiles are objects: the     *)
(* grid stores references (indices into heap), None is 0.                  *)
(***************************************************************************)
EXTENDS Integers, Sequences, FiniteSets, TLC

\* model.py: GRID_SIZE, the side of the default board.
GRID_SIZE == 4

\* Bound: how many operations one run calls on the board after constructing it.
MaxOps == 2

\* The shapes (rows, cols) a Board is constructed with.
Shapes == {<<1, 4>>, <<4, 1>>, <<2, 2>>, <<2, 3>>, <<GRID_SIZE, GRID_SIZE>>}

\* The shapes whose arrays are enumerated in full for from_list.
FullShapes == {<<1, 4>>, <<4, 1>>, <<2, 2>>}

\* The tile values of the enumerated arrays (0 is an empty cell).
CellValues == {0, 2, 4}

\* The values place_tile is called with explicitly.
PlaceValues == {2, 8}

\* The shapes of the boards of the runs that start with tiles on the board,
\* and of the runs that register listeners.
SmallShapes == {<<1, 4>>, <<2, 2>>}

\* The shapes of the boards whose cells are read and written by position.
AccessShapes == SmallShapes \cup {<<2, 4>>}

\* Bound: how many listeners one run registers, on the board and its tiles.
MaxListeners == 2

\* The listeners that are registered.
Listeners == {"view", "log"}

\* Bound: how many calls on the board one run of main() makes.
MaxSteps == 5

None == 0

----------------------------------------------------------------------------
(* Vec *)

Vec(row, col) == [row |-> row, col |-> col]

\* Vec.__add__
VecAdd(a, b) == Vec(a.row + b.row, a.col + b.col)

\* Vec.__eq__
VecEq(a, b) == a.row = b.row /\ a.col = b.col

\* The direction vectors of right(), left(), up(), down().
DirRight == Vec(0, 1)
DirLeft == Vec(0, -1)
DirUp == Vec(-1, 0)
DirDown == Vec(1, 0)
Dirs == {DirRight, DirLeft, DirUp, DirDown}

----------------------------------------------------------------------------
(* Python lists: an index i into a list of length n *)

\* i is a legal index (Python accepts -n .. n-1)
IndexOk(i, n) == -n <= i /\ i < n

\* the 1-based place a legal index i denotes (negative indices count from the end)
PyIndex(i, n) == IF i < 0 THEN i + n + 1 ELSE i + 1

----------------------------------------------------------------------------
(* GameEvent, Tile *)

\* EventKind
tile_created == "tile_created"
tile_updated == "tile_updated"
tile_removed == "tile_removed"

\* GameEvent(kind, tile): the tile reference, and the tile's fields as the
\* listeners see them at the (synchronous) notification.
GameEvent(kind, id, t) ==
    [kind |-> kind, tile |-> id, row |-> t.row, col |-> t.col, value |-> t.value]

\* Tile.__init__
Tile(pos, value) == [row |-> pos.row, col |-> pos.col, value |-> value]

\* Tile.__eq__ comparing the wrong field
TileEq_row(a, b) == a.row = b.row

\* Tile.__eq__: equality of values
TileEq(a, b) == a.value = b.value

\* A board world w:
\*   rows, cols  Board.rows, Board.cols
\*   tiles       list of lists of tile references (None = 0)
\*   heap        the Tile objects created so far, heap[id]
\*   listeners   Board._listeners
\*   tlisteners  Tile._listeners of each tile, tlisteners[id]
\*   events      the events notified by the running operation, in order
\*   delivered   the calls listener.notify(event) of the running operation, in order
\*   visited     the positions the running operation called slide on, in order
\*   err         the exception the running operation raised ("" if none)
\*   ret         what the running operation returns (None if nothing)

\* whether board[Vec(tile.row, tile.col)] is the tile id
Holds(w, id) ==
    LET t == w.heap[id] IN
    /\ IndexOk(t.row, Len(w.tiles))
    /\ LET r == PyIndex(t.row, Len(w.tiles)) IN
       /\ IndexOk(t.col, Len(w.tiles[r]))
       /\ w.tiles[r][PyIndex(t.col, Len(w.tiles[r]))] = id

\* what a listener finds when it is notified of event: the event, the fields
\* of its tile, and whether the grid holds the tile at the tile's position
Seen(w, event) ==
    [kind |-> event.kind, tile |-> event.tile, row |-> event.row, col |-> event.col,
     value |-> event.value, stored |-> Holds(w, event.tile)]

\* GameElement.notify_all that notifies a listener once, however often it
\* was registered
notify_all_once(w, element_listeners, event) ==
    LET first == {i \in 1..Len(element_listeners) :
                     \A j \in 1..(i - 1) : element_listeners[j] # element_listeners[i]}
        RECURSIVE from(_)
        from(i) == IF i > Len(element_listeners) THEN << >>
                   ELSE (IF i \in first
                         THEN << [listener |-> element_listeners[i], event |-> Seen(w, event)] >>
                         ELSE << >>) \o from(i + 1)
    IN [w EXCEPT !.events = Append(@, Seen(w, event)),
                 !.delivered = @ \o from(1)]

\* GameElement.notify_all: for listener in self._listeners: listener.notify(event)
notify_all(w, element_listeners, event) ==
    [w EXCEPT !.events = Append(@, Seen(w, event)),
              !.delivered = @ \o [i \in 1..Len(element_listeners) |->
                                     [listener |-> element_listeners[i],
                                      event |-> Seen(w, event)]]]

\* GameElement.add_listener on the board
add_listener(w, listener) == [w EXCEPT !.listeners = Append(@, listener)]

\* GameElement.add_listener on the tile id
tile_add_listener(w, id, listener) == [w EXCEPT !.tlisteners[id] = Append(@, listener)]

\* Tile.move_to
move_to(w, id, new_pos) ==
    LET t == [w.heap[id] EXCEPT !.row = new_pos.row, !.col = new_pos.col]
        w1 == [w EXCEPT !.heap[id] = t]
    IN notify_all(w1, w1.tlisteners[id], GameEvent(tile_updated, id, t))

\* Tile.merge that notifies of the removal first
merge_removed_first(w, id, other) ==
    LET t == [w.heap[id] EXCEPT !.value = w.heap[id].value + w.heap[other].value]
        w1 == [w EXCEPT !.heap[id] = t]
        w2 == notify_all(w1, w1.tlisteners[other], GameEvent(tile_removed, other, w1.heap[other]))
    IN notify_all(w2, w2.tlisteners[id], GameEvent(tile_updated, id, t))

\* Tile.merge
merge(w, id, other) ==
    LET t == [w.heap[id] EXCEPT !.value = w.heap[id].value + w.heap[other].value]
        w1 == [w EXCEPT !.heap[id] = t]
        w2 == notify_all(w1, w1.tlisteners[id], GameEvent(tile_updated, id, t))
    IN notify_all(w2, w2.tlisteners[other], GameEvent(tile_removed, other, w2.heap[other]))

----------------------------------------------------------------------------
(* Board *)

\* Board.__init__: rows lists of cols None
NewTiles(rows, cols) == [r \in 1..rows |-> [c \in 1..cols |-> None]]

\* whether self.tiles[pos.row][pos.col] is a legal access
CanIndex(w, pos) ==
    /\ IndexOk(pos.row, Len(w.tiles))
    /\ IndexOk(pos.col, Len(w.tiles[PyIndex(pos.row, Len(w.tiles))]))

\* Board.__getitem__ (on a legal access)
getitem(w, pos) ==
    LET r == PyIndex(pos.row, Len(w.tiles))
    IN w.tiles[r][PyIndex(pos.col, Len(w.tiles[r]))]

\* Board.__setitem__ (on a legal access)
setitem(w, pos, tile) ==
    LET r == PyIndex(pos.row, Len(w.tiles))
    IN [w EXCEPT !.tiles[r][PyIndex(pos.col, Len(w.tiles[r]))] = tile]

\* board[pos]: Board.__getitem__, which raises where the lists do
getitem_call(w, pos) ==
    IF ~CanIndex(w, pos) THEN [w EXCEPT !.err = "IndexError"]
    ELSE [w EXCEPT !.ret = getitem(w, pos)]

\* board[pos] = None (value 0) or board[pos] = Tile(pos, value):
\* Board.__setitem__, which raises where the lists do
setitem_call(w, pos, value) ==
    LET w1 == IF value = 0 THEN w
              ELSE [w EXCEPT !.heap = Append(@, Tile(pos, value)),
                             !.tlisteners = Append(@, << >>)]
    IN IF ~CanIndex(w1, pos) THEN [w1 EXCEPT !.err = "IndexError"]
       ELSE setitem(w1, pos, IF value = 0 THEN None ELSE Len(w1.heap))

\* Board.to_list
to_list(w) ==
    [r \in 1..Len(w.tiles) |->
        [c \in 1..Len(w.tiles[r]) |->
            IF w.tiles[r][c] = None THEN 0 ELSE w.heap[w.tiles[r][c]].value]]

\* Board.in_bounds with rows and cols interchanged
in_bounds_swapped(w, pos) ==
    (0 <= pos.row /\ pos.row < w.cols) /\ (0 <= pos.col /\ pos.col < w.rows)

\* Board.in_bounds
in_bounds(w, pos) ==
    (0 <= pos.row /\ pos.row < w.rows) /\ (0 <= pos.col /\ pos.col < w.cols)

\* Board._move_tile without self[old_pos] = None
move_tile_keep_old(w, old_pos, new_pos) ==
    IF w.tiles[old_pos.row + 1][old_pos.col + 1] # None
    THEN LET id == w.tiles[old_pos.row + 1][old_pos.col + 1]
             w1 == move_to(w, id, new_pos)
         IN [w1 EXCEPT !.tiles[new_pos.row + 1][new_pos.col + 1] = id]
    ELSE w

\* Board._move_tile
move_tile(w, old_pos, new_pos) ==
    IF getitem(w, old_pos) # None
    THEN LET id == getitem(w, old_pos)
             w1 == move_to(w, id, new_pos)
             w2 == setitem(w1, new_pos, id)
         IN setitem(w2, old_pos, None)
    ELSE w

\* Board.slide with a loop that ends after the first step
slide_loop_one_step(w, pos, dir) ==
    LET new_pos == VecAdd(pos, dir) IN
    IF ~in_bounds(w, new_pos) THEN w
    ELSE IF getitem(w, new_pos) = None THEN move_tile(w, pos, new_pos)
    ELSE IF TileEq(w.heap[getitem(w, pos)], w.heap[getitem(w, new_pos)])
         THEN move_tile(merge(w, getitem(w, pos), getitem(w, new_pos)), pos, new_pos)
    ELSE w

\* Board.slide that does not merge into a tile that the running operation
\* has produced by a merge
RECURSIVE slide_loop_locked(_, _, _)
slide_loop_locked(w, pos, dir) ==
    LET new_pos == VecAdd(pos, dir)
        merged(id) == \E i \in 1..(Len(w.events) - 1) :
                          /\ w.events[i].tile = id
                          /\ w.events[i].kind = "tile_updated"
                          /\ w.events[i + 1].kind = "tile_removed"
    IN
    IF ~in_bounds(w, new_pos) THEN w
    ELSE IF getitem(w, new_pos) = None
         THEN slide_loop_locked(move_tile(w, pos, new_pos), new_pos, dir)
    ELSE IF /\ TileEq(w.heap[getitem(w, pos)], w.heap[getitem(w, new_pos)])
            /\ ~merged(getitem(w, new_pos))
         THEN move_tile(merge(w, getitem(w, pos), getitem(w, new_pos)), pos, new_pos)
    ELSE w

\* Board.slide that merges and leaves both tiles where they are
RECURSIVE slide_loop_merge_stay(_, _, _)
slide_loop_merge_stay(w, pos, dir) ==
    LET new_pos == VecAdd(pos, dir) IN
    IF ~in_bounds(w, new_pos) THEN w
    ELSE IF getitem(w, new_pos) = None
         THEN slide_loop_merge_stay(move_tile(w, pos, new_pos), new_pos, dir)
    ELSE IF TileEq(w.heap[getitem(w, pos)], w.heap[getitem(w, new_pos)])
         THEN merge(w, getitem(w, pos), getitem(w, new_pos))
    ELSE w

\* Board.slide without the break after a merge
RECURSIVE slide_loop_no_break(_, _, _)
slide_loop_no_break(w, pos, dir) ==
    LET new_pos == VecAdd(pos, dir) IN
    IF ~in_bounds(w, new_pos) THEN w
    ELSE IF getitem(w, new_pos) = None
         THEN slide_loop_no_break(move_tile(w, pos, new_pos), new_pos, dir)
    ELSE IF TileEq(w.heap[getitem(w, pos)], w.heap[getitem(w, new_pos)])
         THEN slide_loop_no_break(
                  move_tile(merge(w, getitem(w, pos), getitem(w, new_pos)), pos, new_pos),
                  new_pos, dir)
    ELSE w

\* Board.slide, the loop: one iteration and the rest
RECURSIVE slide_loop(_, _, _)
slide_loop(w, pos, dir) ==
    LET new_pos == VecAdd(pos, dir) IN
    IF ~in_bounds(w, new_pos) THEN w
    ELSE IF getitem(w, new_pos) = None
         THEN slide_loop(move_tile(w, pos, new_pos), new_pos, dir)
    ELSE IF TileEq(w.heap[getitem(w, pos)], w.heap[getitem(w, new_pos)])
         THEN move_tile(merge(w, getitem(w, pos), getitem(w, new_pos)), pos, new_pos)
    ELSE w

\* Board.slide
slide(w, pos, dir) ==
    IF ~CanIndex(w, pos) THEN [w EXCEPT !.err = "IndexError"]
    ELSE IF getitem(w, pos) = None THEN w
    ELSE slide_loop(w, pos, dir)

\* The loops of right/left/up/down: slide called on each position of order in
\* turn, until one call raises.
RECURSIVE slide_each(_, _, _, _)
slide_each(w, order, i, dir) ==
    IF i > Len(order) \/ w.err # "" THEN w
    ELSE slide_each(slide([w EXCEPT !.visited = Append(@, order[i])], order[i], dir),
                    order, i + 1, dir)

\* Board.right: for row in range(len(self.tiles)): for col in range(self.cols - 1, -1, -1)
right_order(w) ==
    [k \in 1..(Len(w.tiles) * w.cols) |->
        Vec((k - 1) \div w.cols, w.cols - 1 - ((k - 1) % w.cols))]

\* Board.left: for row in range(len(self.tiles)): for col in range(self.cols)
left_order(w) ==
    [k \in 1..(Len(w.tiles) * w.cols) |->
        Vec((k - 1) \div w.cols, (k - 1) % w.cols)]

\* Board.up: for col in range(len(self.tiles)): for row in range(self.rows)
up_order(w) ==
    [k \in 1..(Len(w.tiles) * w.rows) |->
        Vec((k - 1) % w.rows, (k - 1) \div w.rows)]

\* Board.down: for col in range(len(self.tiles)): for row in range(self.rows)
down_order(w) ==
    [k \in 1..(Len(w.tiles) * w.rows) |->
        Vec((k - 1) % w.rows, (k - 1) \div w.rows)]

right(w) == slide_each(w, right_order(w), 1, DirRight)
left(w) == slide_each(w, left_order(w), 1, DirLeft)
up(w) == slide_each(w, up_order(w), 1, DirUp)
down(w) == slide_each(w, down_order(w), 1, DirDown)

\* Board._empty_positions: the test is on the index col (an int, never None),
\* so every position is appended
empty_positions(w) ==
    LET n == Len(w.tiles)
        width(r) == Len(w.tiles[r])
        RECURSIVE upto(_)
        upto(r) == IF r = 0 THEN << >>
                   ELSE upto(r - 1) \o [c \in 1..width(r) |-> Vec(r - 1, c - 1)]
    IN upto(n)

\* Board.has_empty that asks _empty_positions
has_empty_by_positions(w) == Len(empty_positions(w)) > 0

\* Board.has_empty
has_empty(w) ==
    \E r \in 1..Len(w.tiles) : \E c \in 1..Len(w.tiles[r]) : w.tiles[r][c] = None

\* Board.place_tile that draws 2 where random.random() > 0.1
place_tile_mostly_two(w, choice, high, value) ==
    LET empties == [k \in 1..(Len(w.tiles) * w.cols) |->
                       Vec((k - 1) \div w.cols, (k - 1) % w.cols)] IN
    IF ~(Len(empties) > 0) THEN [w EXCEPT !.err = "AssertionError"]
    ELSE LET pos == empties[choice]
             v == IF value = None THEN (IF high THEN 2 ELSE 4) ELSE value
             new_tile == Tile(Vec(pos.row, pos.col), v)
             id == Len(w.heap) + 1
             w1 == [w EXCEPT !.heap = Append(@, new_tile),
                             !.tlisteners = Append(@, << >>)]
             w2 == [w1 EXCEPT !.tiles[pos.row + 1][pos.col + 1] = id]
         IN notify_all(w2, w2.listeners, GameEvent(tile_created, id, new_tile))

\* Board.place_tile that notifies of the tile before it stores it
place_tile_notify_first(w, choice, high, value) ==
    LET empties == [k \in 1..(Len(w.tiles) * w.cols) |->
                       Vec((k - 1) \div w.cols, (k - 1) % w.cols)] IN
    IF ~(Len(empties) > 0) THEN [w EXCEPT !.err = "AssertionError"]
    ELSE LET pos == empties[choice]
             v == IF value = None THEN (IF high THEN 4 ELSE 2) ELSE value
             new_tile == Tile(Vec(pos.row, pos.col), v)
             id == Len(w.heap) + 1
             w1 == [w EXCEPT !.heap = Append(@, new_tile),
                             !.tlisteners = Append(@, << >>)]
             w2 == notify_all(w1, w1.listeners, GameEvent(tile_created, id, new_tile))
         IN [w2 EXCEPT !.tiles[pos.row + 1][pos.col + 1] = id]

\* Board.place_tile; choice is the index random.choice draws, high whether
\* random.random() > 0.1, value the argument (None when omitted)
place_tile(w, choice, high, value) ==
    LET empties == empty_positions(w) IN
    IF ~(Len(empties) > 0) THEN [w EXCEPT !.err = "AssertionError"]
    ELSE LET pos == empties[choice]
             v == IF value = None THEN (IF high THEN 4 ELSE 2) ELSE value
             new_tile == Tile(Vec(pos.row, pos.col), v)
             id == Len(w.heap) + 1
             w1 == [w EXCEPT !.heap = Append(@, new_tile),
                             !.tlisteners = Append(@, << >>)]
             w2 == [w1 EXCEPT !.tiles[pos.row + 1][pos.col + 1] = id]
         IN notify_all(w2, w2.listeners, GameEvent(tile_created, id, new_tile))

\* Board.from_list that leaves a cell alone where values holds 0
RECURSIVE from_list_from_keep(_, _, _)
from_list_from_keep(w, values, k) ==
    LET width == Len(values[1])
        row == (k - 1) \div width
        col == (k - 1) % width
    IN IF Len(values) = 0 \/ k > Len(values) * width THEN w
       ELSE IF ~(row < Len(w.tiles) /\ col < Len(w.tiles[row + 1]))
            THEN [w EXCEPT !.err = "IndexError"]
       ELSE IF values[row + 1][col + 1] = 0
            THEN from_list_from_keep(w, values, k + 1)
       ELSE from_list_from_keep(
                [w EXCEPT !.heap = Append(@, Tile(Vec(row, col), values[row + 1][col + 1])),
                          !.tlisteners = Append(@, << >>),
                          !.tiles[row + 1][col + 1] = Len(w.heap) + 1],
                values, k + 1)

\* Board.from_list: the cells of values in row-major order; an assignment
\* outside self.tiles raises and leaves the cells already set
RECURSIVE from_list_from(_, _, _)
from_list_from(w, values, k) ==
    LET width == Len(values[1])
        row == (k - 1) \div width
        col == (k - 1) % width
    IN IF Len(values) = 0 \/ k > Len(values) * width THEN w
       ELSE IF ~(row < Len(w.tiles) /\ col < Len(w.tiles[row + 1]))
            THEN [w EXCEPT !.err = "IndexError"]
       ELSE IF values[row + 1][col + 1] = 0
            THEN from_list_from([w EXCEPT !.tiles[row + 1][col + 1] = None], values, k + 1)
       ELSE from_list_from(
                [w EXCEPT !.heap = Append(@, Tile(Vec(row, col), values[row + 1][col + 1])),
                          !.tlisteners = Append(@, << >>),
                          !.tiles[row + 1][col + 1] = Len(w.heap) + 1],
                values, k + 1)

from_list(w, values) == from_list_from(w, values, 1)

\* Board.score that adds up the tiles ever created
score_heap(w) ==
    LET RECURSIVE sum(_)
        sum(k) == IF k = 0 THEN 0 ELSE sum(k - 1) + w.heap[k].value
    IN sum(Len(w.heap))

\* Board.score
score(w) ==
    LET val == to_list(w)
        RECURSIVE sum(_)
        sum(k) == IF k = 0 THEN 0
                  ELSE sum(k - 1) + val[((k - 1) \div w.cols) + 1][((k - 1) % w.cols) + 1]
    IN sum(w.rows * w.cols)

----------------------------------------------------------------------------
(* The arrays from_list is called with *)

Matrices(rows, cols, vals) == [1..rows -> [1..cols -> vals]]

\* arrays whose tiles all lie in one row or in one column
LineArrays(rows, cols) ==
    {[r \in 1..rows |-> [c \in 1..cols |-> IF r = at THEN line[c] ELSE 0]] :
        at \in 1..rows, line \in [1..cols -> CellValues]}
    \cup
    {[r \in 1..rows |-> [c \in 1..cols |-> IF c = at THEN line[r] ELSE 0]] :
        at \in 1..cols, line \in [1..rows -> CellValues]}

\* arrays of one value throughout
UniformArrays(rows, cols) == {[r \in 1..rows |-> [c \in 1..cols |-> v]] : v \in {0, 2}}

\* test_model.py: the arrays of the tests on the default board
Fixtures ==
    { << <<0, 2, 2, 4>>, <<2, 0, 2, 8>>, <<8, 2, 2, 4>>, <<4, 2, 2, 0>> >>,
      << <<0, 0, 0, 0>>, <<0, 0, 2, 0>>, <<0, 0, 0, 0>>, <<0, 0, 0, 0>> >>,
      << <<0, 0, 0, 0>>, <<0, 0, 0, 4>>, <<0, 0, 0, 0>>, <<0, 0, 0, 0>> >>,
      << <<2, 0, 0, 0>>, <<0, 2, 0, 0>>, <<0, 0, 2, 0>>, <<0, 0, 0, 2>> >>,
      << <<2, 0, 0, 0>>, <<0, 2, 4, 0>>, <<0, 0, 2, 0>>, <<0, 0, 0, 2>> >>,
      << <<2, 0, 0, 0>>, <<0, 2, 2, 4>>, <<0, 0, 2, 0>>, <<0, 0, 0, 2>> >>,
      << <<2, 0, 2, 0>>, <<2, 2, 2, 0>>, <<2, 2, 0, 0>>, <<2, 2, 2, 2>> >>,
      << <<4, 0, 2, 2>>, <<2, 0, 2, 2>>, <<2, 2, 4, 0>>, <<2, 2, 2, 2>> >> }

\* The arrays from_list is called with on a rows x cols board: arrays of the
\* board's shape, and arrays one row or one column smaller or larger.
LoadInputs(rows, cols) ==
    (IF <<rows, cols>> \in FullShapes
     THEN Matrices(rows, cols, CellValues)
     ELSE LineArrays(rows, cols) \cup UniformArrays(rows, cols))
    \cup (IF <<rows, cols>> = <<GRID_SIZE, GRID_SIZE>> THEN Fixtures ELSE {})
    \cup UniformArrays(rows - 1, cols) \cup UniformArrays(rows + 1, cols)
    \cup UniformArrays(rows, cols - 1) \cup UniformArrays(rows, cols + 1)

----------------------------------------------------------------------------
(* The state: one Board, driven by a caller one operation at a time *)

VARIABLES
    rows,    \* Board.rows
    cols,    \* Board.cols
    tiles,   \* Board.tiles
    heap,    \* the Tile objects created so far
    events,  \* the events the last operation notified, in order
    last,    \* the last operation: its name, arguments, the board before it,
             \* the positions it slid, the exception it raised
    nops,    \* operations called so far
    listeners,   \* Board._listeners
    tlisteners,  \* Tile._listeners, for each tile of heap
    delivered,   \* the calls of listener.notify the last operation made, in order
    log,         \* every event notified since the board was constructed, in order
    pc           \* where main() is, "caller" when the board is driven otherwise

vars == <<rows, cols, tiles, heap, events, last, nops, listeners, tlisteners, delivered, log,
          pc>>

\* the board as the running operation finds it
Self == [rows |-> rows, cols |-> cols, tiles |-> tiles, heap |-> heap,
         listeners |-> listeners, tlisteners |-> tlisteners,
         events |-> << >>, delivered |-> << >>, visited |-> << >>, err |-> "",
         ret |-> None]

NoVec == Vec(0, 0)

\* a call of a Board method: its name and its arguments (those it does not take
\* are NoVec, << >>, 0); choice and high are the draws of random.choice and
\* of random.random() > 0.1 in place_tile
Call(op, pos, dir, values, value, choice, high) ==
    [op |-> op, pos |-> pos, dir |-> dir, values |-> values, value |-> value,
     choice |-> choice, high |-> high]

\* the operation call returns (or raises) with the board as w, and the
\* program goes on at the place at
ReturnTo(call, w, at) ==
    /\ nops' = (IF call.op = "add_listener" THEN nops ELSE nops + 1)
    /\ tiles' = w.tiles
    /\ heap' = w.heap
    /\ events' = w.events
    /\ last' = [call |-> call, tiles |-> tiles, heap |-> heap,
                visited |-> w.visited, err |-> w.err, ret |-> w.ret]
    /\ listeners' = w.listeners
    /\ tlisteners' = w.tlisteners
    /\ delivered' = w.delivered
    /\ log' = log \o w.events
    /\ pc' = at
    /\ UNCHANGED <<rows, cols>>

\* the operation call returns (or raises) with the board as w
Return(call, w) == ReturnTo(call, w, pc)

\* Board(rows, cols), for a shape of shapes
Construct(shapes) ==
    /\ \E shape \in shapes : rows = shape[1] /\ cols = shape[2]
    /\ tiles = NewTiles(rows, cols)
    /\ heap = << >>
    /\ events = << >>
    /\ last = [call |-> Call("init", NoVec, NoVec, << >>, None, 0, FALSE),
               tiles |-> tiles, heap |-> heap, visited |-> << >>, err |-> "",
               ret |-> None]
    /\ nops = 0
    /\ listeners = << >>
    /\ tlisteners = << >>
    /\ delivered = << >>
    /\ log = << >>
    /\ pc = "caller"

Init == Construct(Shapes)

\* the new board, before anything was called on it
Fresh(shape) ==
    [rows |-> shape[1], cols |-> shape[2], tiles |-> NewTiles(shape[1], shape[2]),
     heap |-> << >>, listeners |-> << >>, tlisteners |-> << >>,
     events |-> << >>, delivered |-> << >>, visited |-> << >>, err |-> "",
     ret |-> None]

\* Board(rows, cols) followed by from_list(values): a board with tiles on it
InitLoaded ==
    \E shape \in SmallShapes : \E values \in Matrices(shape[1], shape[2], CellValues) :
        LET w == from_list(Fresh(shape), values) IN
        /\ rows = shape[1] /\ cols = shape[2]
        /\ tiles = w.tiles
        /\ heap = w.heap
        /\ events = w.events
        /\ last = [call |-> Call("from_list", NoVec, NoVec, values, None, 0, FALSE),
                   tiles |-> NewTiles(rows, cols), heap |-> << >>,
                   visited |-> w.visited, err |-> w.err, ret |-> w.ret]
        /\ nops = 0
        /\ listeners = w.listeners
        /\ tlisteners = w.tlisteners
        /\ delivered = w.delivered
        /\ log = w.events
        /\ pc = "caller"

\* the caller has operations left to call; an exception ends the run
Running == nops < MaxOps /\ last.err = ""

FromList ==
    /\ Running
    /\ \E values \in LoadInputs(rows, cols) \cup {to_list(Self)} :
           Return(Call("from_list", NoVec, NoVec, values, None, 0, FALSE), from_list(Self, values))

Slide ==
    /\ Running
    /\ \E r \in 0..(rows - 1), c \in 0..(cols - 1), dir \in Dirs :
           Return(Call("slide", Vec(r, c), dir, << >>, None, 0, FALSE), slide(Self, Vec(r, c), dir))

Right == Running /\ Return(Call("right", NoVec, DirRight, << >>, None, 0, FALSE), right(Self))

Left == Running /\ Return(Call("left", NoVec, DirLeft, << >>, None, 0, FALSE), left(Self))

Up == Running /\ Return(Call("up", NoVec, DirUp, << >>, None, 0, FALSE), up(Self))

Down == Running /\ Return(Call("down", NoVec, DirDown, << >>, None, 0, FALSE), down(Self))

PlaceTile ==
    /\ Running
    /\ \E choice \in 1..Len(empty_positions(Self)), high \in BOOLEAN,
          value \in {None} \cup PlaceValues :
           Return(Call("place_tile", NoVec, NoVec, << >>, value, choice, high),
                  place_tile(Self, choice, high, value))

\* board.has_empty()
HasEmpty ==
    /\ Running
    /\ Return(Call("has_empty", NoVec, NoVec, << >>, None, 0, FALSE),
              [Self EXCEPT !.ret = has_empty(Self)])

\* board.score()
Score ==
    /\ Running
    /\ Return(Call("score", NoVec, NoVec, << >>, None, 0, FALSE),
              [Self EXCEPT !.ret = score(Self)])

Next == FromList \/ Slide \/ Right \/ Left \/ Up \/ Down \/ PlaceTile \/ HasEmpty \/ Score

Spec == Init /\ [][Next]_vars

\* the positions a caller passes to the grid directly: those of the board, and
\* those outside it as far as the lists accept a negative index, and one beyond
AccessPositions ==
    {Vec(r, c) : r \in (-rows - 1)..rows, c \in (-cols - 1)..cols}

\* board[pos]
GetItem ==
    /\ Running
    /\ \E pos \in AccessPositions :
           Return(Call("getitem", pos, NoVec, << >>, None, 0, FALSE), getitem_call(Self, pos))

\* board[pos] = None, board[pos] = Tile(pos, 2)
SetItem ==
    /\ Running
    /\ \E pos \in AccessPositions, value \in {0, 2} :
           Return(Call("setitem", pos, NoVec, << >>, value, 0, FALSE),
                  setitem_call(Self, pos, value))

\* board.slide(pos, dir) with any position
SlideAnywhere ==
    /\ Running
    /\ \E pos \in AccessPositions, dir \in Dirs :
           Return(Call("slide", pos, dir, << >>, None, 0, FALSE), slide(Self, pos, dir))

\* the positions in_bounds is asked about
ProbePositions == {Vec(r, c) : r \in -1..GRID_SIZE, c \in -1..GRID_SIZE}

\* board.in_bounds(pos)
InBounds ==
    /\ Running
    /\ \E pos \in ProbePositions :
           Return(Call("in_bounds", pos, NoVec, << >>, None, 0, FALSE),
                  [Self EXCEPT !.ret = in_bounds(Self, pos)])

NextAccess == FromList \/ GetItem \/ SetItem \/ SlideAnywhere \/ InBounds

InitAccess == Construct(AccessShapes)

\* a caller that loads the board and reads, writes and slides cells by position
SpecAccess == InitAccess /\ [][NextAccess]_vars

\* a call element.add_listener(listener): of the board, or of the tile at pos
\* (on_tile); before is the element's list of listeners at the call
Registration(on_tile, pos, listener, before) ==
    [op |-> "add_listener", on_tile |-> on_tile, pos |-> pos, listener |-> listener,
     before |-> before]

\* the listeners registered so far, on the board and on its tiles
RECURSIVE TileRegistrations(_)
TileRegistrations(n) ==
    IF n = 0 THEN 0 ELSE TileRegistrations(n - 1) + Len(tlisteners[n])
Registered == Len(listeners) + TileRegistrations(Len(tlisteners))

\* board.add_listener(listener)
AddListener ==
    /\ Running
    /\ Registered < MaxListeners
    /\ \E listener \in Listeners :
           Return(Registration(FALSE, NoVec, listener, listeners),
                  add_listener(Self, listener))

\* board[pos].add_listener(listener), for a tile of the board
AddTileListener ==
    /\ Running
    /\ Registered < MaxListeners
    /\ \E r \in 0..(rows - 1), c \in 0..(cols - 1), listener \in Listeners :
           /\ getitem(Self, Vec(r, c)) # None
           /\ Return(Registration(TRUE, Vec(r, c), listener,
                                  tlisteners[getitem(Self, Vec(r, c))]),
                     tile_add_listener(Self, getitem(Self, Vec(r, c)), listener))

NextListeners == Next \/ AddListener \/ AddTileListener

\* the operations of a board whose events are listened to
InitListeners == Construct(SmallShapes)

SpecListeners == InitListeners /\ [][NextListeners]_vars

----------------------------------------------------------------------------
(* game_manager.main *)

\* keypress: the commands
LEFT == "Left"
RIGHT == "Right"
UP == "Up"
DOWN == "Down"
UNMAPPED == "Unmapped"
CLOSE == "Close"
Commands == {LEFT, RIGHT, UP, DOWN, UNMAPPED, CLOSE}

\* grid.place_tile() in main: the board's listener is the GridView, whose
\* notify attaches a TileView to the created tile
main_place_tile(w, choice, high) ==
    LET w1 == place_tile(w, choice, high, None) IN
    IF w1.err # "" THEN w1
    ELSE tile_add_listener(w1, Len(w1.heap), "TileView")

\* the board of main() before its first place_tile
MainBoard == [Fresh(<<GRID_SIZE, GRID_SIZE>>) EXCEPT !.listeners = << "GridView" >>]

\* the cells 1..k of values, in row-major order, placed one by one on the
\* board of main() (the commands in between Unmapped); an entry 0 places none
RECURSIVE Played(_, _)
Played(values, k) ==
    IF k = 0 THEN MainBoard
    ELSE LET v == values[((k - 1) \div GRID_SIZE) + 1][((k - 1) % GRID_SIZE) + 1]
             w == Played(values, k - 1)
         IN IF w.err # "" \/ v = 0 THEN w ELSE main_place_tile(w, k, v = 4)

\* the boards of twos, and of twos and fours in turn, full or with one cell empty
GameBoards ==
    {[r \in 1..GRID_SIZE |-> [c \in 1..GRID_SIZE |->
         IF (r - 1) * GRID_SIZE + c = hole THEN 0
         ELSE IF mixed /\ (r + c) % 2 = 1 THEN 4 ELSE 2]] :
        hole \in 0..(GRID_SIZE * GRID_SIZE), mixed \in BOOLEAN}

\* the last cell of values that holds a tile
LastPlaced(values) ==
    CHOOSE k \in 1..(GRID_SIZE * GRID_SIZE) :
        /\ values[((k - 1) \div GRID_SIZE) + 1][((k - 1) % GRID_SIZE) + 1] # 0
        /\ \A j \in (k + 1)..(GRID_SIZE * GRID_SIZE) :
               values[((j - 1) \div GRID_SIZE) + 1][((j - 1) % GRID_SIZE) + 1] = 0

\* main() before its first place_tile, or at its loop test after it has
\* placed the tiles of a board of GameBoards
InitGame ==
    /\ rows = GRID_SIZE /\ cols = GRID_SIZE
    /\ nops = 0
    /\ \/ /\ pc = "start"
          /\ tiles = MainBoard.tiles
          /\ heap = << >>
          /\ events = << >>
          /\ last = [call |-> Call("init", NoVec, NoVec, << >>, None, 0, FALSE),
                     tiles |-> tiles, heap |-> heap, visited |-> << >>, err |-> "",
                     ret |-> None]
          /\ listeners = MainBoard.listeners
          /\ tlisteners = << >>
          /\ delivered = << >>
          /\ log = << >>
       \/ \E values \in GameBoards :
             LET k == LastPlaced(values)
                 before == Played(values, k - 1)
                 w == Played(values, k)
             IN /\ pc = "while"
                /\ tiles = w.tiles
                /\ heap = w.heap
                /\ events = SubSeq(w.events, Len(before.events) + 1, Len(w.events))
                /\ last = [call |-> Call("place_tile", NoVec, NoVec, << >>, None, k,
                                         values[((k - 1) \div GRID_SIZE) + 1]
                                               [((k - 1) % GRID_SIZE) + 1] = 4),
                           tiles |-> before.tiles, heap |-> before.heap,
                           visited |-> << >>, err |-> "", ret |-> None]
                /\ listeners = w.listeners
                /\ tlisteners = w.tlisteners
                /\ delivered = SubSeq(w.delivered, Len(before.delivered) + 1,
                                      Len(w.delivered))
                /\ log = w.events

\* main() goes on: it has calls left, and no call has raised
Playing == nops < MaxSteps /\ last.err = ""

\* grid.place_tile(), before the loop
MainFirstPlace ==
    /\ pc = "start"
    /\ Playing
    /\ \E choice \in 1..Len(empty_positions(Self)), high \in BOOLEAN :
           ReturnTo(Call("place_tile", NoVec, NoVec, << >>, None, choice, high),
                    main_place_tile(Self, choice, high), "while")

\* while grid.has_empty()
MainWhile ==
    /\ pc = "while"
    /\ Playing
    /\ ReturnTo(Call("has_empty", NoVec, NoVec, << >>, None, 0, FALSE),
                [Self EXCEPT !.ret = has_empty(Self)],
                IF has_empty(Self) THEN "place" ELSE "lose")

\* grid.place_tile(), in the loop
MainPlace ==
    /\ pc = "place"
    /\ Playing
    /\ \E choice \in 1..Len(empty_positions(Self)), high \in BOOLEAN :
           ReturnTo(Call("place_tile", NoVec, NoVec, << >>, None, choice, high),
                    main_place_tile(Self, choice, high), "command")

\* cmd = commands.next() and the branch it takes
MainCommand ==
    /\ pc = "command"
    /\ Playing
    /\ \E cmd \in Commands :
           \/ cmd = LEFT /\ ReturnTo(Call("left", NoVec, DirLeft, << >>, None, 0, FALSE),
                                     left(Self), "while")
           \/ cmd = RIGHT /\ ReturnTo(Call("right", NoVec, DirRight, << >>, None, 0, FALSE),
                                      right(Self), "while")
           \/ cmd = UP /\ ReturnTo(Call("up", NoVec, DirUp, << >>, None, 0, FALSE),
                                   up(Self), "while")
           \/ cmd = DOWN /\ ReturnTo(Call("down", NoVec, DirDown, << >>, None, 0, FALSE),
                                     down(Self), "while")
           \/ cmd = CLOSE /\ ReturnTo(Call("score", NoVec, NoVec, << >>, None, 0, FALSE),
                                      [Self EXCEPT !.ret = score(Self)], "exit")
           \/ cmd = UNMAPPED /\ pc' = "while"
                             /\ UNCHANGED <<rows, cols, tiles, heap, events, last, nops,
                                            listeners, tlisteners, delivered, log>>

\* game_view.lose(grid.score())
MainLose ==
    /\ pc = "lose"
    /\ Playing
    /\ ReturnTo(Call("score", NoVec, NoVec, << >>, None, 0, FALSE),
                [Self EXCEPT !.ret = score(Self)], "lost")

NextGame == MainFirstPlace \/ MainWhile \/ MainPlace \/ MainCommand \/ MainLose

SpecGame == InitGame /\ [][NextGame]_vars

\* the same operations, called on a board that already holds tiles
SpecLoaded == InitLoaded /\ [][Next]_vars

----------------------------------------------------------------------------
(* Vocabulary of the properties *)

\* the board before and after the last operation
Before == [rows |-> rows, cols |-> cols, tiles |-> last.tiles, heap |-> last.heap,
           listeners |-> listeners, tlisteners |-> SubSeq(tlisteners, 1, Len(last.heap)),
           events |-> << >>, delivered |-> << >>, visited |-> << >>, err |-> "",
           ret |-> None]
After == Self

Op == last.call.op
Moves == {"right", "left", "up", "down"}

Positions == {Vec(r, c) : r \in 0..(rows - 1), c \in 0..(cols - 1)}
OnBoard(p) == p \in Positions
Cell(w, p) == w.tiles[p.row + 1][p.col + 1]
Occupied(w, p) == Cell(w, p) # None
ValueAt(w, p) == w.heap[Cell(w, p)].value
Scale(dir, k) == Vec(k * dir.row, k * dir.col)
Steps(p, dir, k) == VecAdd(p, Scale(dir, k))
OccupiedCells(w) == {p \in Positions : Occupied(w, p)}

\* p lies on the line through q in direction dir, nearer the edge dir points to
NearerEdge(p, q, dir) ==
    /\ dir.row * (p.row - q.row) + dir.col * (p.col - q.col) > 0
    /\ dir.row = 0 => p.row = q.row
    /\ dir.col = 0 => p.col = q.col

----------------------------------------------------------------------------
(* C1 *)

\* C1: in right(), left(), up() and down() alike, of two cells of one row
\* (left/right) or one column (up/down), the one nearer the edge the move
\* points to is slid first.
C1_EdgeFirst ==
    Op \in Moves =>
        \A i, j \in 1..Len(last.visited) :
            i < j => ~NearerEdge(last.visited[j], last.visited[i], last.call.dir)

----------------------------------------------------------------------------
(* C2 *)

\* C2: after left(), right(), up() or down() has completed, every tile is
\* blocked in the direction of the move: the next cell that way is outside
\* the board or occupied.
C2_AllBlocked ==
    (Op \in Moves /\ last.err = "") =>
        \A p \in OccupiedCells(After) :
            LET q == VecAdd(p, last.call.dir)
            IN ~OnBoard(q) \/ Occupied(After, q)

----------------------------------------------------------------------------
(* C3 *)

\* the cells whose content the last operation changed
ChangedCells == {p \in Positions : Cell(After, p) # Cell(Before, p)}

\* C3: place_tile() on a board with an empty cell stores the new tile in a
\* cell that was empty: one more cell is occupied afterwards, and every tile
\* that was on the board keeps its value and its position.
C3_PlaceOnEmpty ==
    (Op = "place_tile" /\ has_empty(Before)) =>
        /\ \A p \in ChangedCells : ~Occupied(Before, p)
        /\ Cardinality(OccupiedCells(After)) = Cardinality(OccupiedCells(Before)) + 1
        /\ \A p \in OccupiedCells(Before) :
               /\ Cell(After, p) = Cell(Before, p)
               /\ heap[Cell(Before, p)] = last.heap[Cell(Before, p)]

----------------------------------------------------------------------------
(* C4 *)

\* C4: place_tile() on a board with no empty cell fails on its assertion and
\* leaves the grid unchanged.
C4_PlaceOnFullFails ==
    (Op = "place_tile" /\ ~has_empty(Before)) =>
        /\ last.err = "AssertionError"
        /\ tiles = last.tiles

----------------------------------------------------------------------------
(* C5, C6, C7: slide(pos, dir) *)

\* the number of consecutive empty cells of w after p in direction dir
RECURSIVE FreeRun(_, _, _)
FreeRun(w, p, dir) ==
    LET q == VecAdd(p, dir)
    IN IF OnBoard(q) /\ ~Occupied(w, q) THEN 1 + FreeRun(w, q, dir) ELSE 0

\* the last operation was slide(pos, dir) on an occupied cell
SlidTile == Op = "slide" /\ Occupied(Before, last.call.pos)
Slider == Cell(Before, last.call.pos)
\* the last empty cell on the slider's way, and the cell after it
Rest == Steps(last.call.pos, last.call.dir, FreeRun(Before, last.call.pos, last.call.dir))
Ahead == VecAdd(Rest, last.call.dir)
\* the slider meets the edge or a tile of another value / a tile of its value
MeetsObstacle ==
    SlidTile /\ (~OnBoard(Ahead) \/ ValueAt(Before, Ahead) # ValueAt(Before, last.call.pos))
MeetsEqual ==
    SlidTile /\ OnBoard(Ahead) /\ ValueAt(Before, Ahead) = ValueAt(Before, last.call.pos)

\* C5: slide(pos, dir) on an occupied cell moves the tile through the empty
\* cells and leaves it in the last cell before the edge or before a tile of
\* another value; the tile never ends outside the board, and no other tile
\* is moved.
C5_SlideToObstacle ==
    /\ SlidTile =>
           /\ OnBoard(Vec(heap[Slider].row, heap[Slider].col))
           /\ Cell(After, Vec(heap[Slider].row, heap[Slider].col)) = Slider
    /\ MeetsObstacle =>
           /\ Cell(After, Rest) = Slider
           /\ heap[Slider] = [row |-> Rest.row, col |-> Rest.col,
                              value |-> last.heap[Slider].value]
           /\ \A p \in Positions \ {Rest, last.call.pos} : Cell(After, p) = Cell(Before, p)
           /\ Rest # last.call.pos => ~Occupied(After, last.call.pos)
           /\ \A id \in 1..Len(heap) : id # Slider => heap[id] = last.heap[id]
           /\ last.err = ""

\* a single tile on an otherwise empty board was slid and lies on the edge
C5_Witness ==
    /\ MeetsObstacle
    /\ Cardinality(OccupiedCells(Before)) = 1
    /\ FreeRun(Before, last.call.pos, last.call.dir) >= 2
    /\ ~OnBoard(VecAdd(Vec(heap[Slider].row, heap[Slider].col), last.call.dir))

RemovedEvents == {i \in 1..Len(events) : events[i].kind = tile_removed}

\* C6: when the sliding tile reaches a tile of equal value the two merge: the
\* destination cell holds one tile with the sum of both values, the cells the
\* slider came from and passed are empty, and the slide stops there: one slide
\* merges at most once, even if the cell beyond holds a tile equal to the sum.
C6_SlideMerges ==
    /\ Op = "slide" => Cardinality(RemovedEvents) <= 1
    /\ MeetsEqual =>
           /\ Cell(After, Ahead) = Slider
           /\ heap[Slider] = [row |-> Ahead.row, col |-> Ahead.col,
                              value |-> last.heap[Slider].value
                                        + last.heap[Cell(Before, Ahead)].value]
           /\ heap[Slider].value = 2 * ValueAt(Before, last.call.pos)
           /\ ~Occupied(After, last.call.pos)
           /\ \A p \in Positions \ {Ahead, last.call.pos} : Cell(After, p) = Cell(Before, p)
           /\ \A p \in Positions : Cell(After, p) # Cell(Before, Ahead)
           /\ Cardinality(OccupiedCells(After)) = Cardinality(OccupiedCells(Before)) - 1
           /\ Cardinality(RemovedEvents) = 1

\* a slide merged into a tile whose neighbour beyond equals the merged value
C6_Witness ==
    /\ MeetsEqual
    /\ FreeRun(Before, last.call.pos, last.call.dir) >= 1
    /\ OnBoard(VecAdd(Ahead, last.call.dir))
    /\ Occupied(After, VecAdd(Ahead, last.call.dir))
    /\ ValueAt(After, VecAdd(Ahead, last.call.dir)) = ValueAt(After, Ahead)

\* slide(pos, dir) on an empty cell, on a tile on the edge dir points to, or
\* on a tile whose neighbour that way holds another value
SlideInPlace ==
    /\ Op = "slide"
    /\ \/ ~Occupied(Before, last.call.pos)
       \/ ~OnBoard(VecAdd(last.call.pos, last.call.dir))
       \/ /\ Occupied(Before, VecAdd(last.call.pos, last.call.dir))
          /\ ValueAt(Before, VecAdd(last.call.pos, last.call.dir))
                 # ValueAt(Before, last.call.pos)

\* C7: slide(pos, dir) leaves the whole grid unchanged and emits no event when
\* the cell at pos is empty, when the tile is on the edge in direction dir, or
\* when the neighbour in direction dir holds a tile of another value.
C7_SlideNoOp ==
    SlideInPlace =>
        /\ tiles = last.tiles
        /\ heap = last.heap
        /\ events = << >>
        /\ last.err = ""

\* a tile next to a tile of another value was slid towards it
C7_Witness ==
    /\ SlideInPlace
    /\ Occupied(Before, last.call.pos)
    /\ OnBoard(VecAdd(last.call.pos, last.call.dir))

----------------------------------------------------------------------------
(* C8 *)

\* the lines of four cells a move slides along: the rows of a board four
\* wide for left/right, the columns of a board four high for up/down
LinesOfFour ==
    IF Op \in {"left", "right"}
    THEN {{Vec(r, c) : c \in 0..(GRID_SIZE - 1)} : r \in {q \in 0..(rows - 1) : cols = GRID_SIZE}}
    ELSE {{Vec(r, c) : r \in 0..(GRID_SIZE - 1)} : c \in {d \in 0..(cols - 1) : rows = GRID_SIZE}}

\* the line is full of tiles of one value
FullOfEqual(w, line) ==
    /\ \A p \in line : Occupied(w, p)
    /\ \A p, q \in line : ValueAt(w, p) = ValueAt(w, q)

\* C8: for each of the four moves, a full line of four tiles of one value v
\* holds exactly two tiles after the move, each of value 2v.
C8_FourEqualGiveTwo ==
    Op \in Moves =>
        \A line \in LinesOfFour :
            FullOfEqual(Before, line) =>
                /\ Cardinality({p \in line : Occupied(After, p)}) = 2
                /\ \A p \in line : \A q \in line :
                       Occupied(After, p) => ValueAt(After, p) = 2 * ValueAt(Before, q)

\* a move has completed on a board with a full line of four equal tiles
C8_Witness ==
    /\ Op \in Moves
    /\ last.err = ""
    /\ \E line \in LinesOfFour : FullOfEqual(Before, line)

----------------------------------------------------------------------------
(* C9 *)

\* values is a rectangular array of the board's shape
BoardShaped(values) ==
    /\ Len(values) = rows
    /\ \A r \in 1..Len(values) : Len(values[r]) = cols

\* C9 as stated: for any rectangular array A and whatever the board held,
\* from_list(A) followed by to_list() returns A.
C9_AnyArrayRoundTrip ==
    Op = "from_list" => to_list(After) = last.call.values

\* C9, amended: for any array A of the board's shape (rows lists of cols
\* integers, 0 or positive) and whatever the board held, from_list(A) followed
\* by to_list() returns A; and from_list(to_list()) leaves to_list() unchanged.
C9_BoardShapedRoundTrip ==
    /\ (Op = "from_list" /\ BoardShaped(last.call.values)) =>
           /\ to_list(After) = last.call.values
           /\ last.err = ""
    /\ (Op = "from_list" /\ last.call.values = to_list(Before)) =>
           to_list(After) = to_list(Before)

\* from_list was called on a board with tiles, with an array that empties an
\* occupied cell and fills an empty one
C9_Witness ==
    /\ Op = "from_list"
    /\ BoardShaped(last.call.values)
    /\ \E p \in Positions :
           Occupied(Before, p) /\ last.call.values[p.row + 1][p.col + 1] = 0
    /\ \E p \in Positions :
           ~Occupied(Before, p) /\ last.call.values[p.row + 1][p.col + 1] # 0

----------------------------------------------------------------------------
(* C10 *)

\* C10: between operations, no tile occupies two cells, and every tile stored
\* at cell (r, c) is a tile whose row is r and whose col is c.
C10_GridConsistent ==
    /\ \A p \in Positions :
           Occupied(After, p) =>
               /\ Cell(After, p) \in 1..Len(heap)
               /\ heap[Cell(After, p)].row = p.row
               /\ heap[Cell(After, p)].col = p.col
    /\ Cardinality({Cell(After, p) : p \in OccupiedCells(After)})
           = Cardinality(OccupiedCells(After))

\* a second operation has moved and merged tiles of a board holding others
C10_Witness ==
    /\ nops = 2
    /\ Op \in Moves \cup {"slide"}
    /\ RemovedEvents # {}
    /\ \E i \in 1..Len(events) :
           events[i].kind = tile_updated /\ events[i].value = last.heap[events[i].tile].value
    /\ Cardinality(OccupiedCells(After)) >= 2

----------------------------------------------------------------------------
(* C11 *)

\* the places of log where a tile was removed
Removals == {i \in 1..Len(log) : log[i].kind = tile_removed}

\* C11: once a Removed event was emitted for a tile, no grid cell holds the
\* tile, its value and position stay what they were at the event, and no
\* later event, of the same or of a later operation, is emitted for it.
C11_RemovedTileRests ==
    \A i \in Removals :
        /\ \A p \in Positions : Cell(After, p) # log[i].tile
        /\ heap[log[i].tile] = [row |-> log[i].row, col |-> log[i].col,
                                value |-> log[i].value]
        /\ \A j \in (i + 1)..Len(log) : log[j].tile # log[i].tile

\* after a merge, a later operation has moved or merged tiles again and has
\* changed the cell in which the tile was absorbed
C11_Witness ==
    \E i \in Removals :
        /\ i <= Len(log) - Len(events)
        /\ \E j \in 1..Len(events) : events[j].kind = tile_updated
        /\ Cell(After, Vec(log[i].row, log[i].col))
               # Cell(Before, Vec(log[i].row, log[i].col))

----------------------------------------------------------------------------
(* C12, C13, C14: events and their delivery *)

\* the element whose notify_all emitted the event e: the board for a created
\* tile, the tile itself otherwise; and the listeners of that element
ListenersOf(e) == IF e.kind = tile_created THEN listeners ELSE tlisteners[e.tile]

\* e, delivered to each listener of its element in the order of registration
Deliveries(e) ==
    [k \in 1..Len(ListenersOf(e)) |-> [listener |-> ListenersOf(e)[k], event |-> e]]

\* the deliveries of the events i.. of the last operation, in order
RECURSIVE DeliveriesFrom(_)
DeliveriesFrom(i) ==
    IF i > Len(events) THEN << >> ELSE Deliveries(events[i]) \o DeliveriesFrom(i + 1)

\* the value the tile id had when the event i of the last operation was emitted
RECURSIVE ValueBefore(_, _)
ValueBefore(i, id) ==
    IF i = 1 THEN last.heap[id].value
    ELSE IF events[i - 1].tile = id THEN events[i - 1].value
    ELSE ValueBefore(i - 1, id)

\* the last n elements of a sequence
Tail_n(seq, n) == SubSeq(seq, Len(seq) - n + 1, Len(seq))

\* C12: a.merge(b) sets a.value to a.value + b.value and leaves b.value
\* unchanged; it emits Updated for a, with the sum, to a's listeners and then
\* Removed for b to b's listeners, and nothing else; in a merging slide one
\* Updated for the surviving tile with its new position follows.
C12_MergeEvents ==
    /\ \A i \in RemovedEvents :
           /\ 1 < i /\ i < Len(events)
           /\ events[i - 1].kind = tile_updated
           /\ events[i - 1].tile # events[i].tile
           /\ events[i].value = ValueBefore(i - 1, events[i].tile)
           /\ events[i].value = heap[events[i].tile].value
           /\ events[i - 1].value
                  = ValueBefore(i - 1, events[i - 1].tile) + events[i].value
           /\ events[i - 1].row = events[i + 1].row - last.call.dir.row
           /\ events[i - 1].col = events[i + 1].col - last.call.dir.col
           /\ events[i + 1] = [kind |-> tile_updated, tile |-> events[i - 1].tile,
                               row |-> events[i].row, col |-> events[i].col,
                               value |-> events[i - 1].value, stored |-> FALSE]
    /\ MeetsEqual =>
           /\ Len(events) = FreeRun(Before, last.call.pos, last.call.dir) + 3
           /\ RemovedEvents = {Len(events) - 1}
           /\ events[Len(events) - 2].tile = Slider
           /\ events[Len(events) - 1].tile = Cell(Before, Ahead)
           /\ Tail_n(delivered, 2 * Len(tlisteners[Slider])
                                    + Len(tlisteners[Cell(Before, Ahead)]))
                  = Deliveries(events[Len(events) - 2])
                    \o Deliveries(events[Len(events) - 1])
                    \o Deliveries(events[Len(events)])

\* a slide has merged two tiles, each with a listener of its own
C12_Witness ==
    /\ MeetsEqual
    /\ tlisteners[Slider] # << >>
    /\ tlisteners[Cell(Before, Ahead)] # << >>
    /\ tlisteners[Slider] # tlisteners[Cell(Before, Ahead)]

\* C13: place_tile emits one Created event for the new tile to the board's
\* listeners, after it has stored the tile in the grid at the tile's own row
\* and col, and emits no Updated and no Removed event.
C13_PlaceEmitsCreated ==
    (Op = "place_tile" /\ last.err = "") =>
        /\ Len(heap) = Len(last.heap) + 1
        /\ events = << [kind |-> tile_created, tile |-> Len(heap),
                        row |-> heap[Len(heap)].row, col |-> heap[Len(heap)].col,
                        value |-> heap[Len(heap)].value, stored |-> TRUE] >>
        /\ OnBoard(Vec(heap[Len(heap)].row, heap[Len(heap)].col))
        /\ Cell(After, Vec(heap[Len(heap)].row, heap[Len(heap)].col)) = Len(heap)
        /\ delivered = [k \in 1..Len(listeners) |->
                            [listener |-> listeners[k], event |-> events[1]]]

\* place_tile was called on a board with a listener and with a tile that has
\* a listener of its own
C13_Witness ==
    /\ Op = "place_tile"
    /\ Len(listeners) = 1
    /\ \E id \in 1..Len(last.heap) : tlisteners[id] # << >>
    /\ Len(delivered) = 1

\* C14: add_listener registers at the end; notify_all delivers each event to
\* every registered listener of the element once per registration, in the
\* order of registration, and when the operation returns every delivery of
\* every event it emitted has been made, event by event.
C14_DeliveredInOrder ==
    /\ delivered = DeliveriesFrom(1)
    /\ Op = "add_listener" =>
           (IF last.call.on_tile
            THEN tlisteners[Cell(After, last.call.pos)]
            ELSE listeners) = Append(last.call.before, last.call.listener)

\* an event was delivered twice to a listener registered twice, and an event
\* was delivered to two listeners in turn
C14_Witness ==
    /\ Len(delivered) >= 2
    /\ \E i \in 1..(Len(delivered) - 1) :
           /\ delivered[i].event = delivered[i + 1].event
           /\ delivered[i].listener = delivered[i + 1].listener
           /\ last.err = ""

----------------------------------------------------------------------------
(* C15 *)

\* the tile place_tile has created
Placed == heap[Len(heap)]

\* C15: place_tile(value=v) creates a tile of value v; place_tile() creates a
\* tile of value 4 when random.random() > 0.1 and of value 2 otherwise, and of
\* no other value.
C15_PlacedValue ==
    (Op = "place_tile" /\ last.err = "") =>
        /\ Len(heap) = Len(last.heap) + 1
        /\ Cell(After, Vec(Placed.row, Placed.col)) = Len(heap)
        /\ last.call.value # None => Placed.value = last.call.value
        /\ last.call.value = None =>
               /\ Placed.value \in {2, 4}
               /\ Placed.value = 4 <=> last.call.high

\* place_tile() has drawn the rarer value, on a board that holds a tile
C15_Witness ==
    /\ Op = "place_tile"
    /\ last.call.value = None
    /\ ~last.call.high
    /\ Placed.value = 2
    /\ Cardinality(OccupiedCells(After)) >= 2

----------------------------------------------------------------------------
(* C16 *)

\* the last operation was board[pos], board[pos] = tile or slide(pos, dir)
\* with a position outside the board
AccessOutside ==
    /\ Op \in {"getitem", "setitem", "slide"}
    /\ ~OnBoard(last.call.pos)

\* C16: board[pos], board[pos] = tile and slide(pos, dir) with a position
\* outside the board, a negative row or column included, fail with an error
\* and neither read nor write a cell of the grid.
C16_OutsideFails ==
    AccessOutside =>
        /\ last.err # ""
        /\ last.ret = None
        /\ tiles = last.tiles
        /\ SubSeq(heap, 1, Len(last.heap)) = last.heap
        /\ events = << >>

----------------------------------------------------------------------------
(* C17 *)

\* C17: has_empty() is true exactly when some cell of the grid holds no tile:
\* true on the board as constructed, whatever its size, false when every cell
\* is occupied; both as has_empty() returned it and in every state reached.
C17_HasEmptyExact ==
    /\ has_empty(After) <=> Cardinality(OccupiedCells(After)) < rows * cols
    /\ nops = 0 => has_empty(After)
    /\ Op = "has_empty" =>
           /\ last.ret <=> (\E p \in Positions : ~Occupied(Before, p))
           /\ tiles = last.tiles /\ heap = last.heap /\ events = << >>

\* has_empty() has returned false on a full board
C17_Witness ==
    /\ Op = "has_empty"
    /\ last.ret = FALSE
    /\ Cardinality(OccupiedCells(Before)) = rows * cols

----------------------------------------------------------------------------
(* C18 *)

RECURSIVE SeqSum(_)
SeqSum(q) == IF q = << >> THEN 0 ELSE Head(q) + SeqSum(Tail(q))

NonZero(x) == x # 0

\* the sum of the non-zero entries of a list of lists
EntriesSum(list) ==
    SeqSum([r \in 1..Len(list) |-> SeqSum(SelectSeq(list[r], NonZero))])

\* the sum of the values of the tiles in the cells of S
RECURSIVE TilesSum(_, _)
TilesSum(w, S) ==
    IF S = {} THEN 0
    ELSE LET p == CHOOSE q \in S : TRUE IN ValueAt(w, p) + TilesSum(w, S \ {p})

\* C18: in every state score() is the sum of the non-zero entries of
\* to_list(), which is the sum of the values of the tiles on the board; and
\* score() returns that sum and changes nothing.
C18_ScoreIsSum ==
    /\ score(After) = EntriesSum(to_list(After))
    /\ score(After) = TilesSum(After, OccupiedCells(After))
    /\ Op = "score" =>
           /\ last.ret = TilesSum(Before, OccupiedCells(Before))
           /\ tiles = last.tiles /\ heap = last.heap /\ events = << >>

\* tiles have merged, so that the board holds fewer tiles than were created,
\* and the score is that of the tiles left
C18_Witness ==
    /\ RemovedEvents # {}
    /\ Cardinality(OccupiedCells(After)) >= 2
    /\ Len(heap) > Cardinality(OccupiedCells(After))
    /\ score(After) >= 8

----------------------------------------------------------------------------
(* C19 *)

\* C19: in_bounds(pos) is true exactly for the positions of the board, row
\* in 0..rows-1 and col in 0..cols-1, rows and cols not interchanged: on a
\* 2x4 board (1,3) is in bounds and (3,1) is not.
C19_InBoundsExact ==
    /\ \A pos \in ProbePositions : in_bounds(After, pos) <=> pos \in Positions
    /\ Op = "in_bounds" =>
           /\ last.ret <=> (last.call.pos.row \in 0..(rows - 1)
                            /\ last.call.pos.col \in 0..(cols - 1))
           /\ tiles = last.tiles /\ heap = last.heap
    /\ (rows = 2 /\ cols = 4) =>
           in_bounds(After, Vec(1, 3)) /\ ~in_bounds(After, Vec(3, 1))

\* in_bounds(Vec(3, 1)) has returned false on a 2x4 board that holds tiles
C19_Witness ==
    /\ Op = "in_bounds"
    /\ rows = 2 /\ cols = 4
    /\ last.call.pos = Vec(3, 1)
    /\ last.ret = FALSE
    /\ OccupiedCells(After) # {}

----------------------------------------------------------------------------
(* C20 *)

\* test_move_merge_up: the board and what up() makes of it
MergeUpBoard ==
    << <<4, 0, 2, 2>>, <<2, 0, 2, 2>>, <<2, 2, 4, 0>>, <<2, 2, 2, 2>> >>
MergeUpResult ==
    << <<4, 4, 8, 4>>, <<4, 0, 2, 2>>, <<2, 0, 0, 0>>, <<0, 0, 0, 0>> >>

\* the lines of four cells of the last move, each from the edge the move
\* points to: the columns from the top for up, the rows from the left for
\* left and from the right for right
EdgeLines ==
    IF Op = "up" /\ rows = GRID_SIZE
    THEN {[k \in 1..GRID_SIZE |-> Vec(k - 1, c)] : c \in 0..(cols - 1)}
    ELSE IF Op = "left" /\ cols = GRID_SIZE
    THEN {[k \in 1..GRID_SIZE |-> Vec(r, k - 1)] : r \in 0..(rows - 1)}
    ELSE IF Op = "right" /\ cols = GRID_SIZE
    THEN {[k \in 1..GRID_SIZE |-> Vec(r, GRID_SIZE - k)] : r \in 0..(rows - 1)}
    ELSE {}

\* the values along a line, 0 for an empty cell
ValuesOn(w, line) ==
    [k \in 1..Len(line) |-> IF Occupied(w, line[k]) THEN ValueAt(w, line[k]) ELSE 0]

\* C20: in one move a tile produced by a merge merges again with an equal
\* tile that is slid later: a line that reads v, v, 2v, x from the edge becomes
\* 4v, x, 0, 0 (the column 2, 2, 4, 2 moved up becomes 8, 2, 0, 0), and up()
\* turns the board of test_move_merge_up into the board the test expects.
C20_MergesCascade ==
    /\ \A line \in EdgeLines :
           LET b == ValuesOn(Before, line) IN
           (b[1] # 0 /\ b[2] = b[1] /\ b[3] = 2 * b[1] /\ b[4] # 4 * b[1]) =>
               ValuesOn(After, line) = << 4 * b[1], b[4], 0, 0 >>
    /\ (Op = "up" /\ to_list(Before) = MergeUpBoard) =>
           to_list(After) = MergeUpResult /\ last.err = ""

\* up() has been called on the board of test_move_merge_up, and in column 2
\* the tile that a merge produced was absorbed by the tile slid after it
C20_Witness ==
    /\ Op = "up"
    /\ to_list(Before) = MergeUpBoard
    /\ ValuesOn(After, [k \in 1..GRID_SIZE |-> Vec(k - 1, 2)]) = << 8, 2, 0, 0 >>
    /\ \E i, j \in RemovedEvents :
           i < j /\ events[i - 1].tile = events[j].tile /\ events[j].col = 2

----------------------------------------------------------------------------
(* C21 *)

RECURSIVE IsPowerOfTwo(_)
IsPowerOfTwo(n) == n >= 1 /\ (n = 1 \/ (n % 2 = 0 /\ IsPowerOfTwo(n \div 2)))

\* C21: every merge of slide and of the four moves is of two tiles of equal
\* value and leaves the surviving tile with twice that value; and with
\* from_list and place_tile putting only powers of two on the board, every
\* tile on the board has a power of two as value after any operations.
C21_MergesDouble ==
    /\ \A i \in RemovedEvents :
           /\ events[i].value = ValueBefore(i - 1, events[i - 1].tile)
           /\ events[i - 1].value = 2 * events[i].value
    /\ \A p \in OccupiedCells(After) : IsPowerOfTwo(ValueAt(After, p))

\* a tile that a merge of an earlier operation produced has merged again
C21_Witness ==
    /\ RemovedEvents # {}
    /\ Len(log) > Len(events)
    /\ \E p \in OccupiedCells(After) : ValueAt(After, p) >= 16

----------------------------------------------------------------------------
(* C22 *)

\* the positions the last move called slide on
Visited == {last.visited[i] : i \in 1..Len(last.visited)}

\* C22: on a board with rows # cols, up() and down() slide the cells of every
\* column 0..cols-1 and left() and right() those of every row 0..rows-1:
\* no cell is skipped, no position outside the grid is accessed, and the
\* move raises no error.
C22_EveryLineSlid ==
    (Op \in Moves /\ rows # cols) =>
        /\ last.err = ""
        /\ Visited = Positions

----------------------------------------------------------------------------
(* C23 *)

\* C23: slide, left(), right(), up() and down() conserve the score: score()
\* after the operation equals score() before it, whatever the board, and also
\* when the move ends in an error.
C23_ScoreConserved ==
    Op \in Moves \cup {"slide"} =>
        /\ score(After) = score(Before)
        /\ TilesSum(After, OccupiedCells(After)) = TilesSum(Before, OccupiedCells(Before))

\* a move has merged tiles twice and moved others, on a board that is not
\* empty afterwards
C23_Witness ==
    /\ Op \in Moves
    /\ Cardinality(RemovedEvents) >= 2
    /\ score(Before) >= 8
    /\ tiles # last.tiles

----------------------------------------------------------------------------
(* C24 *)

\* C24: a move never increases the number of occupied cells, and the number
\* of cells it frees is the number of Removed events it emitted.
C24_CellsFreedAreRemovals ==
    Op \in Moves =>
        /\ Cardinality(OccupiedCells(After)) <= Cardinality(OccupiedCells(Before))
        /\ Cardinality(OccupiedCells(Before)) - Cardinality(OccupiedCells(After))
               = Cardinality(RemovedEvents)

\* a move has freed three cells or more
C24_Witness ==
    /\ Op \in Moves
    /\ last.err = ""
    /\ Cardinality(RemovedEvents) >= 3
    /\ Cardinality(OccupiedCells(Before)) - Cardinality(OccupiedCells(After)) >= 3

----------------------------------------------------------------------------
(* C25, C26: the game *)

\* the tiles a Created event was emitted for, and those a Removed event was
Created == {log[i].tile : i \in {j \in 1..Len(log) : log[j].kind = tile_created}}
Removed == {log[i].tile : i \in Removals}

\* the tiles stored in the grid
Stored == {Cell(After, p) : p \in OccupiedCells(After)}

\* C25: on a board populated only through place_tile and the four moves, the
\* tiles with a Created event and no Removed event are exactly the tiles
\* stored in the grid: no tile leaves the grid without a Removed event.
C25_CreatedNotRemovedAreStored == Created \ Removed = Stored

\* C26: in the game loop of main() every place_tile call is made on a board
\* with an empty cell and does not fail, a command is read only right after
\* one tile was placed, and game_view.lose is reached only on a board with no
\* empty cell.
C26_GameLoop ==
    /\ Op = "place_tile" =>
           /\ \E p \in Positions : ~Occupied(Before, p)
           /\ last.err = ""
    /\ pc = "command" =>
           /\ Op = "place_tile"
           /\ Len(heap) = Len(last.heap) + 1
           /\ Holds(After, Len(heap))
    /\ pc \in {"lose", "lost"} => OccupiedCells(After) = Positions

\* the board filled up in the loop: a tile was placed, a command moved
\* nothing, and the loop test sent main() to lose
C26_Witness ==
    /\ pc = "lose"
    /\ Op = "has_empty"
    /\ last.ret = FALSE
    /\ nops >= 4
    /\ Len(log) = GRID_SIZE * GRID_SIZE

====
